---- MODULE Spec2Model ----
(***************************************************************************)
(* A model of pluggy's _HookCaller (src/pluggy/hooks.py): the two ordered  *)
(* chains of hook implementations, the one-shot specification binding, the *)
(* call history of a historic hook, and the call paths __call__,           *)
(* call_historic, call_extra and _maybe_apply_history.                     *)
(*                                                                         *)
(* The dispatcher (hook_execute, handed to the constructor) is not part of *)
(* hooks.py.  A dispatch is therefore modelled as a call that is entered   *)
(* (a frame is pushed on `stack`), during which the dispatched             *)
(* implementations may re-enter the caller, and that later returns with an *)
(* outcome computed by _multicall from what each implementation did.  A    *)
(* result callback (proc) is a call of the same kind: while it runs the    *)
(* frame stays on `stack`, the callback may re-enter the caller, and it    *)
(* returns or raises in a later step.                                      *)
(*                                                                         *)
(* `lastOp` is the record of the most recent event (the entry into, or the *)
(* return from, an operation); `nextId` stands for object identity of the  *)
(* HookImpl objects (ids grow in creation order); `unregistered` remembers *)
(* which plugins were removed and not added again; `failed` remembers the   *)
(* positions in the history of the calls whose dispatch raised.  What an   *)
(* operation did is read off a step: the attributes before it, the event,  *)
(* the attributes after it.                                                *)
(***************************************************************************)
EXTENDS Integers, Sequences, FiniteSets, TLC

VARIABLES _wrappers, _nonwrappers, _specmodule_or_class, argnames, spec_opts,
          _call_history, stack, nextId, lastOp, unregistered, failed

vars == <<_wrappers, _nonwrappers, _specmodule_or_class, argnames, spec_opts,
          _call_history, stack, nextId, lastOp, unregistered, failed>>

\* ------------------------------------------------------------------ bounds

\* HookImpl objects created over one run (registered ones and temporary ones).
MaxImpls == 3
\* The same, in the specifications that also dispatch.
MaxCallImpls == 2
\* Entries the call history may hold.
MaxHist == 2
\* Operations that may be in progress at once (re-entrancy depth).
MaxDepth == 2

\* ------------------------------------------------------------- the inputs

Plugins == {"p1", "p2"}
NoPlugin == "None"
NoProc == "None"
Procs == {NoProc, "cb"}
ParamNames == {"a"}
NoSpec == "None"
SpecModules == {"SpecA", "SpecNoHook"}

\* kwargs is None or a mapping, of which the model keeps the keys.
NoKwargs == [none |-> TRUE, keys |-> {}]
Dict(keys) == [none |-> FALSE, keys |-> keys]
Mappings == {Dict(k) : k \in SUBSET ParamNames}

ImplOpts == [hookwrapper : BOOLEAN, tryfirst : BOOLEAN, trylast : BOOLEAN]

\* The callables handed to call_extra: a function of the declared argument,
\* and a function that keeps an argument named self: neither a bound method
\* nor a function with a dotted qualified name whose first argument is self.
Functions == {"f", "f_self"}

\* Lists of at most n callables.
MethodLists(n) == UNION {[1..k -> Functions] : k \in 0..n}

\* Those in which no callable stands behind one with an argument named self.
MethodListsToFirstSelf(n) ==
    {methods \in MethodLists(n) :
        \A i \in DOMAIN methods : i < Len(methods) => methods[i] = "f"}

\* spec_opts is None or a dict, modelled as a function from its keys.
NoneOpts == [none |-> TRUE]
NoOpts == [k \in {} |-> FALSE]

\* ----------------------------------------------------------------- helpers

Range(s) == {s[i] : i \in DOMAIN s}

\* list.insert(k, x) with 0-based index k.
ListInsert(s, k, x) == SubSeq(s, 1, k) \o <<x>> \o SubSeq(s, k + 1, Len(s))

\* del s[i], i counted from 1.
ListDelete(s, i) == SubSeq(s, 1, i - 1) \o SubSeq(s, i + 1, Len(s))

\* `spec_opts or {}`
OrEmptyOpts(opts) == IF "none" \in DOMAIN opts THEN NoOpts ELSE opts

\* dict.get(key), read as a truth value.
Get(opts, key) == key \in DOMAIN opts /\ opts[key]

\* dict.update(other)
Update(opts, other) ==
    [k \in DOMAIN opts \cup DOMAIN other |->
        IF k \in DOMAIN other THEN other[k] ELSE opts[k]]

\* `kwargs or {}`
OrEmptyDict(kwargs) == IF kwargs.none \/ kwargs.keys = {} THEN Dict({}) ELSE kwargs

\* ------------------------------------------------- records and attributes

\* HookImpl.__init__: the options become attributes of the object; `id` stands
\* for the object's identity.
HookImpl(id, plugin, hook_impl_opts) ==
    [id |-> id, plugin |-> plugin,
     hookwrapper |-> hook_impl_opts.hookwrapper,
     tryfirst |-> hook_impl_opts.tryfirst,
     trylast |-> hook_impl_opts.trylast]

\* Variant: the temporary implementations are tryfirst.
ExtraOpts_tryfirst == [hookwrapper |-> FALSE, trylast |-> FALSE, tryfirst |-> TRUE]

\* The options call_extra gives each temporary implementation.
ExtraOpts == [hookwrapper |-> FALSE, trylast |-> FALSE, tryfirst |-> FALSE]

\* HookspecMarker.__call__: the option sets a marked specification can carry
\* (historic together with firstresult raises ValueError).
HookspecOpts ==
    {o \in [firstresult : BOOLEAN, historic : BOOLEAN] :
        ~(o.historic /\ o.firstresult)}

\* getattr(specmodule_or_class, self.name) succeeds.
SpecHasHook(specmodule_or_class) == specmodule_or_class = "SpecA"

\* varnames(specfunc)[0] for the specification the model binds.
varnames(specmodule_or_class) == <<"a">>

\* Variant: the caller never counts as bound.
has_spec_never == FALSE

has_spec == _specmodule_or_class # NoSpec

\* Variant: the caller never counts as historic.
is_historic_never == FALSE

is_historic == _call_history.exists

\* ---------------------------------------------------------- chain building

\* The closure `remove` of _remove_plugin: the index of the first entry owned
\* by plugin (0: none), scanning from the front.
RECURSIVE remove_scan(_, _, _)
remove_scan(wrappers, plugin, i) ==
    IF i > Len(wrappers) THEN 0
    ELSE IF wrappers[i].plugin = plugin THEN i
    ELSE remove_scan(wrappers, plugin, i + 1)

\* Variant: every entry owned by plugin is deleted.
remove_all(wrappers, plugin) ==
    LET kept == SelectSeq(wrappers, LAMBDA m : m.plugin # plugin)
    IN  [found |-> Len(kept) < Len(wrappers), list |-> kept]

\* Variant: the entry is found and left in the list.
remove_keep(wrappers, plugin) ==
    [found |-> remove_scan(wrappers, plugin, 1) # 0, list |-> wrappers]

remove(wrappers, plugin) ==
    LET i == remove_scan(wrappers, plugin, 1)
    IN  IF i = 0 THEN [found |-> FALSE, list |-> wrappers]
        ELSE [found |-> TRUE, list |-> ListDelete(wrappers, i)]

\* Variant: a plugin that is not found is ignored.
remove_plugin_silent(chains, plugin) ==
    LET rw == remove(chains.w, plugin)
        rn == remove(chains.nw, plugin)
    IN  IF rw.found THEN [err |-> "None", nw |-> chains.nw, w |-> rw.list]
        ELSE [err |-> "None", nw |-> rn.list, w |-> chains.w]

\* Variant: the non-wrappers are searched first.
remove_plugin_nonwrappers_first(chains, plugin) ==
    LET rw == remove(chains.w, plugin)
        rn == remove(chains.nw, plugin)
    IN  IF rn.found THEN [err |-> "None", nw |-> rn.list, w |-> chains.w]
        ELSE IF rw.found THEN [err |-> "None", nw |-> chains.nw, w |-> rw.list]
        ELSE [err |-> "ValueError", nw |-> chains.nw, w |-> chains.w]

\* _remove_plugin on the pair of chains.
remove_plugin(chains, plugin) ==
    LET rw == remove(chains.w, plugin)
        rn == remove(chains.nw, plugin)
    IN  IF rw.found THEN [err |-> "None", nw |-> chains.nw, w |-> rw.list]
        ELSE IF rn.found THEN [err |-> "None", nw |-> rn.list, w |-> chains.w]
        ELSE [err |-> "ValueError", nw |-> chains.nw, w |-> chains.w]

\* Variant: the trailing tryfirst entries are not skipped.
last_non_tryfirst_unskipped(methods, i) == i

\* "find last non-tryfirst method": the while loop of _add_hookimpl, i counted
\* from 1 (0: every entry is tryfirst, or the list is empty).
RECURSIVE last_non_tryfirst(_, _)
last_non_tryfirst(methods, i) ==
    IF i >= 1 /\ methods[i].tryfirst THEN last_non_tryfirst(methods, i - 1)
    ELSE i

\* Variant: a trylast implementation goes behind the trylast entries already
\* in the list.
insert_hookimpl_fifo(methods, hookimpl) ==
    IF hookimpl.trylast
    THEN ListInsert(methods,
                    Cardinality({i \in DOMAIN methods : methods[i].trylast}),
                    hookimpl)
    ELSE IF hookimpl.tryfirst THEN Append(methods, hookimpl)
    ELSE ListInsert(methods, last_non_tryfirst(methods, Len(methods)), hookimpl)

\* The insertion of _add_hookimpl into the chosen list.
insert_hookimpl(methods, hookimpl) ==
    IF hookimpl.trylast THEN ListInsert(methods, 0, hookimpl)
    ELSE IF hookimpl.tryfirst THEN Append(methods, hookimpl)
    ELSE ListInsert(methods, last_non_tryfirst(methods, Len(methods)), hookimpl)

\* Variant: every implementation goes to the non-wrappers.
add_hookimpl_unsorted(chains, hookimpl) ==
    [chains EXCEPT !.nw = insert_hookimpl(chains.nw, hookimpl)]

\* _add_hookimpl on the pair of chains.
add_hookimpl(chains, hookimpl) ==
    IF hookimpl.hookwrapper
    THEN [chains EXCEPT !.w = insert_hookimpl(chains.w, hookimpl)]
    ELSE [chains EXCEPT !.nw = insert_hookimpl(chains.nw, hookimpl)]

\* `assert "self" not in args` of varnames, which HookImpl.__init__ calls on
\* its function: the assertion fails.
varnames_asserts(function) == function = "f_self"

\* The methods the loop of call_extra gets through: those in front of the
\* first for which HookImpl raises.
RECURSIVE extras_made(_, _)
extras_made(methods, i) ==
    IF i > Len(methods) \/ varnames_asserts(methods[i]) THEN i - 1
    ELSE extras_made(methods, i + 1)

\* The loop of call_extra: n temporary implementations, created one after the
\* other (ids id, id+1, ...) and added with _add_hookimpl.
RECURSIVE add_extras(_, _, _)
add_extras(chains, id, n) ==
    IF n = 0 THEN chains
    ELSE add_extras(add_hookimpl(chains, HookImpl(id, NoPlugin, ExtraOpts)),
                    id + 1, n - 1)

\* The temporary implementations of one call_extra, in the order given.
extra_impls(id, n) == [k \in 1..n |-> HookImpl(id + k - 1, NoPlugin, ExtraOpts)]

\* The finally clause of call_extra.
call_extra_finally(old, current) == old

\* ------------------------------------------------------------ the dispatcher

\* What one implementation does when the dispatcher runs it: return nothing,
\* return a value, or raise; a wrapper, after the others have run: pass the
\* outcome on, override it with one result ("value") or with two ("values"),
\* or raise.
Behaviours == {"none", "value", "values", "raise"}

\* The non-wrappers in list order; results are prepended; firstresult stops at
\* the first result; a raise ends the run.
RECURSIVE run_nonwrappers(_, _, _, _, _)
run_nonwrappers(hook_impls, beh, firstresult, i, results) ==
    IF i > Len(hook_impls) THEN [raised |-> FALSE, res |-> results]
    ELSE IF hook_impls[i].hookwrapper
         THEN run_nonwrappers(hook_impls, beh, firstresult, i + 1, results)
    ELSE IF beh[i] = "raise" THEN [raised |-> TRUE, res |-> <<>>]
    ELSE IF beh[i] \in {"value", "values"}
         THEN IF firstresult THEN [raised |-> FALSE, res |-> <<hook_impls[i].id>>]
              ELSE run_nonwrappers(hook_impls, beh, firstresult, i + 1,
                                   <<hook_impls[i].id>> \o results)
    ELSE run_nonwrappers(hook_impls, beh, firstresult, i + 1, results)

\* The after-phases of the wrappers, in reverse order of entry: each passes
\* the outcome on, replaces it by a failure, or overrides its value (the
\* second of two forced results of implementation id is named -id).
RECURSIVE exit_wrappers(_, _, _, _, _)
exit_wrappers(hook_impls, beh, firstresult, i, outcome) ==
    IF i < 1 THEN outcome
    ELSE IF ~hook_impls[i].hookwrapper \/ beh[i] = "none"
         THEN exit_wrappers(hook_impls, beh, firstresult, i - 1, outcome)
    ELSE IF beh[i] = "raise"
         THEN exit_wrappers(hook_impls, beh, firstresult, i - 1,
                            [raised |-> TRUE, res |-> <<>>])
    ELSE IF beh[i] = "values" /\ ~firstresult
         THEN exit_wrappers(hook_impls, beh, firstresult, i - 1,
                            [raised |-> FALSE,
                             res |-> <<hook_impls[i].id, 0 - hook_impls[i].id>>])
    ELSE exit_wrappers(hook_impls, beh, firstresult, i - 1,
                       [raised |-> FALSE, res |-> <<hook_impls[i].id>>])

\* One dispatch: the value of self._hookexec(self, methods, kwargs) when the
\* i-th implementation behaves as beh[i].  A result is named by the id of the
\* implementation that produced it.
_multicall(hook_impls, beh, firstresult) ==
    exit_wrappers(hook_impls, beh, firstresult, Len(hook_impls),
                  run_nonwrappers(hook_impls, beh, firstresult, 1, <<>>))

\* self._hookexec with the firstresult option of the bound specification.
_hookexec(methods, beh) ==
    _multicall(methods, beh, Get(spec_opts, "firstresult"))

\* ------------------------------------------------------------- bookkeeping

Chains == [nw |-> _nonwrappers, w |-> _wrappers]
NoChains == [nw |-> <<>>, w |-> <<>>]

\* An event: operation op was entered or went on to its next dispatch (phase
\* "call": a dispatch of it is now in progress), has called a result callback
\* (phase "callback": proc is now running), or has returned (phase "return"),
\* with the error it raised, its arguments, the dispatch it completed last
\* (none, or one) and the result callbacks it has called since that dispatch
\* returned.
Event(op, phase, err, plugin, impls, kwargs, proc, disp, cbs, warned) ==
    [op |-> op, phase |-> phase, err |-> err, plugin |-> plugin, impls |-> impls,
     kwargs |-> kwargs, proc |-> proc, disp |-> disp, cbs |-> cbs,
     warned |-> warned]

\* An operation in progress, waiting for its dispatch (phase "dispatch") or
\* for proc (phase "callback") to return, and its local variables (impls: the
\* extra methods, or the replayed method; proc; the list and the kwargs handed
\* to the dispatcher; old, of call_extra; idx, the history entry at hand; disp,
\* the dispatch that has returned; todo, the callbacks of the loop from the
\* one in progress on; cbs, the callbacks called), and `pre`, the chains the
\* operation found.
Frame(op, impls, proc, methods, kwargs, old, pre, idx) ==
    [op |-> op, impls |-> impls, proc |-> proc, methods |-> methods,
     kwargs |-> kwargs, old |-> old, pre |-> pre, idx |-> idx,
     phase |-> "dispatch", disp |-> <<>>, todo |-> <<>>, cbs |-> <<>>]

\* The frame when proc is called for the first of todo.
InCallback(frame, disp, todo, cbs) ==
    [frame EXCEPT !.phase = "callback", !.disp = disp, !.todo = todo,
                  !.cbs = Append(cbs, todo[1])]

\* A completed dispatch.
Dispatched(methods, kwargs, outcome) ==
    [methods |-> methods, kwargs |-> kwargs, raised |-> outcome.raised,
     res |-> outcome.res]

Top == stack[Len(stack)]
Pop == SubSeq(stack, 1, Len(stack) - 1)

ErrorOf(outcome) == IF outcome.raised THEN "HookError" ELSE "None"

\* The error of a result callback that raises.
ProcErrorOf(raises) == IF raises THEN "ProcError" ELSE "None"

\* Entries of both chains owned by plugin.
Owned(chains, plugin) ==
    Cardinality({i \in DOMAIN chains.nw : chains.nw[i].plugin = plugin})
    + Cardinality({i \in DOMAIN chains.w : chains.w[i].plugin = plugin})

\* ------------------------------------------------------------------- Init

\* The attributes set_specification works on.
Binding == [_specmodule_or_class |-> _specmodule_or_class, argnames |-> argnames,
            spec_opts |-> spec_opts, _call_history |-> _call_history]

\* set_specification behind its assertion: the attributes it leaves and the
\* error it raises.  getattr fails on a specification without the hook, and
\* dict.update(None) fails, each after the assignments made before it.
bind(self, specmodule_or_class, opts) ==
    LET named == [self EXCEPT !._specmodule_or_class = specmodule_or_class]
        read == [named EXCEPT
                    !.argnames = <<"__multicall__">> \o varnames(specmodule_or_class)]
    IN  IF ~SpecHasHook(specmodule_or_class)
        THEN [err |-> "AttributeError", self |-> named]
        ELSE IF "none" \in DOMAIN opts
        THEN [err |-> "TypeError", self |-> read]
        ELSE [err |-> "None",
              self |-> [read EXCEPT
                          !.spec_opts = Update(@, opts),
                          !._call_history =
                              IF Get(opts, "historic")
                              THEN [exists |-> TRUE, list |-> <<>>]
                              ELSE @]]

\* The attributes the constructor sets before it binds a specification.
unbound(opts) ==
    [_specmodule_or_class |-> NoSpec, argnames |-> <<>>,
     spec_opts |-> OrEmptyOpts(opts),
     _call_history |-> [exists |-> FALSE, list |-> <<>>]]

\* The constructor's outcome: it binds the specification it is given.
constructed(specmodule_or_class, opts) ==
    IF specmodule_or_class = NoSpec
    THEN [err |-> "None", self |-> unbound(opts)]
    ELSE bind(unbound(opts), specmodule_or_class, opts)

\* _HookCaller.__init__(name, hook_execute, specmodule_or_class, spec_opts):
\* the caller it constructs; there is none when set_specification raises.
__init__(specmodule_or_class, opts) ==
    /\ constructed(specmodule_or_class, opts).err = "None"
    /\ _wrappers = <<>>
    /\ _nonwrappers = <<>>
    /\ _specmodule_or_class =
          constructed(specmodule_or_class, opts).self._specmodule_or_class
    /\ argnames = constructed(specmodule_or_class, opts).self.argnames
    /\ spec_opts = constructed(specmodule_or_class, opts).self.spec_opts
    /\ _call_history = constructed(specmodule_or_class, opts).self._call_history
    /\ stack = <<>>
    /\ nextId = 1
    /\ unregistered = [p \in Plugins |-> "no"]
    /\ failed = {}
    /\ lastOp = Event("__init__", "return", "None", NoPlugin, <<>>, NoKwargs,
                      NoProc, <<>>, <<>>, FALSE)

Init == __init__(NoSpec, NoneOpts)

\* ---------------------------------------------------------------- actions

set_specification(specmodule_or_class, opts) ==
    /\ IF has_spec
       THEN /\ lastOp' = Event("set_specification", "return", "AssertionError",
                               NoPlugin, <<>>, NoKwargs, NoProc, <<>>, <<>>, FALSE)
            /\ UNCHANGED <<_specmodule_or_class, argnames, spec_opts, _call_history>>
       ELSE LET bound == bind(Binding, specmodule_or_class, opts)
            IN  /\ _specmodule_or_class' = bound.self._specmodule_or_class
                /\ argnames' = bound.self.argnames
                /\ spec_opts' = bound.self.spec_opts
                /\ _call_history' = bound.self._call_history
                /\ lastOp' = Event("set_specification", "return", bound.err,
                                   NoPlugin, <<>>, NoKwargs, NoProc, <<>>, <<>>,
                                   FALSE)
    /\ UNCHANGED <<_wrappers, _nonwrappers, stack, nextId,
                   unregistered, failed>>

\* Variant: the list of a dispatch in progress is the list the entry is
\* deleted from.
_remove_plugin_aliased(plugin) ==
    /\ LET r == remove_plugin(Chains, plugin)
       IN  /\ _nonwrappers' = r.nw
           /\ _wrappers' = r.w
           /\ lastOp' = Event("_remove_plugin", "return", r.err, plugin,
                              SelectSeq(_nonwrappers \o _wrappers,
                                        LAMBDA m : m \notin Range(r.nw \o r.w)),
                              NoKwargs, NoProc, <<>>, <<>>, FALSE)
           /\ stack' = IF stack = <<>> THEN stack
                       ELSE [stack EXCEPT ![Len(stack)].methods =
                               SelectSeq(@, LAMBDA m : m \in Range(r.nw \o r.w))]
           /\ unregistered' =
                IF r.err = "None" /\ plugin \in Plugins
                THEN [unregistered EXCEPT ![plugin] =
                        IF Owned(Chains, plugin) = 1 THEN "last" ELSE "some"]
                ELSE unregistered
    /\ UNCHANGED <<_specmodule_or_class, argnames, spec_opts, _call_history,
                   nextId, failed>>

_remove_plugin(plugin) ==
    /\ LET r == remove_plugin(Chains, plugin)
       IN  /\ _nonwrappers' = r.nw
           /\ _wrappers' = r.w
           /\ lastOp' = Event("_remove_plugin", "return", r.err, plugin,
                              SelectSeq(_nonwrappers \o _wrappers,
                                        LAMBDA m : m \notin Range(r.nw \o r.w)),
                              NoKwargs, NoProc, <<>>, <<>>, FALSE)
           /\ unregistered' =
                IF r.err = "None" /\ plugin \in Plugins
                THEN [unregistered EXCEPT ![plugin] =
                        IF Owned(Chains, plugin) = 1 THEN "last" ELSE "some"]
                ELSE unregistered
    /\ UNCHANGED <<_specmodule_or_class, argnames, spec_opts, _call_history,
                   stack, nextId, failed>>

\* Variant: on a historic caller the add starts the replay of the history
\* against the new implementation.
_add_hookimpl_replaying(plugin, opts) ==
    /\ nextId <= MaxImpls
    /\ LET hookimpl == HookImpl(nextId, plugin, opts)
           chains == add_hookimpl(Chains, hookimpl)
       IN  /\ _nonwrappers' = chains.nw
           /\ _wrappers' = chains.w
           /\ IF is_historic /\ _call_history.list # <<>> /\ Len(stack) < MaxDepth
              THEN /\ stack' = Append(stack,
                          Frame("_maybe_apply_history", <<hookimpl>>,
                                _call_history.list[1].proc, <<hookimpl>>,
                                _call_history.list[1].kwargs, NoChains, Chains, 1))
                   /\ lastOp' = Event("_add_hookimpl", "call", "None", plugin,
                                      <<hookimpl>>, NoKwargs, NoProc, <<>>, <<>>,
                                      FALSE)
              ELSE /\ UNCHANGED stack
                   /\ lastOp' = Event("_add_hookimpl", "return", "None", plugin,
                                      <<hookimpl>>, NoKwargs, NoProc, <<>>, <<>>,
                                      FALSE)
    /\ nextId' = nextId + 1
    /\ unregistered' = [unregistered EXCEPT ![plugin] = "no"]
    /\ UNCHANGED <<_specmodule_or_class, argnames, spec_opts,
                   _call_history, failed>>

_add_hookimpl(plugin, opts) ==
    /\ nextId <= MaxImpls
    /\ LET hookimpl == HookImpl(nextId, plugin, opts)
           chains == add_hookimpl(Chains, hookimpl)
       IN  /\ _nonwrappers' = chains.nw
           /\ _wrappers' = chains.w
           /\ lastOp' = Event("_add_hookimpl", "return", "None", plugin,
                              <<hookimpl>>, NoKwargs, NoProc, <<>>, <<>>, FALSE)
    /\ nextId' = nextId + 1
    /\ unregistered' = [unregistered EXCEPT ![plugin] = "no"]
    /\ UNCHANGED <<_specmodule_or_class, argnames, spec_opts,
                   _call_history, stack, failed>>

\* The warning of __call__: a declared argument is missing from the call.
notincall(kwargs) == (Range(argnames) \ {"__multicall__"}) \ kwargs.keys

\* Variant: a call that omits a declared argument fails instead of warning.
__call__strict(args, kwargs) ==
    /\ IF args \/ (~is_historic /\ argnames # <<>> /\ notincall(kwargs) # {})
       THEN /\ lastOp' = Event("__call__", "return", "TypeError", NoPlugin, <<>>,
                               kwargs, NoProc, <<>>, <<>>, FALSE)
            /\ UNCHANGED stack
       ELSE IF is_historic
       THEN /\ lastOp' = Event("__call__", "return", "AssertionError", NoPlugin,
                               <<>>, kwargs, NoProc, <<>>, <<>>, FALSE)
            /\ UNCHANGED stack
       ELSE /\ Len(stack) < MaxDepth
            /\ stack' = Append(stack,
                   Frame("__call__", <<>>, NoProc, _nonwrappers \o _wrappers,
                         kwargs, NoChains, Chains, 0))
            /\ lastOp' = Event("__call__", "call", "None", NoPlugin, <<>>, kwargs,
                               NoProc, <<>>, <<>>, FALSE)
    /\ UNCHANGED <<_wrappers, _nonwrappers, _specmodule_or_class, argnames,
                   spec_opts, _call_history, nextId, unregistered, failed>>

__call__(args, kwargs) ==
    /\ IF args
       THEN /\ lastOp' = Event("__call__", "return", "TypeError", NoPlugin, <<>>,
                               kwargs, NoProc, <<>>, <<>>, FALSE)
            /\ UNCHANGED stack
       ELSE IF is_historic
       THEN /\ lastOp' = Event("__call__", "return", "AssertionError", NoPlugin,
                               <<>>, kwargs, NoProc, <<>>, <<>>, FALSE)
            /\ UNCHANGED stack
       ELSE /\ Len(stack) < MaxDepth
            /\ stack' = Append(stack,
                   Frame("__call__", <<>>, NoProc, _nonwrappers \o _wrappers,
                         kwargs, NoChains, Chains, 0))
            /\ lastOp' = Event("__call__", "call", "None", NoPlugin, <<>>, kwargs,
                               NoProc, <<>>, <<>>,
                               argnames # <<>> /\ notincall(kwargs) # {})
    /\ UNCHANGED <<_wrappers, _nonwrappers, _specmodule_or_class, argnames,
                   spec_opts, _call_history, nextId, unregistered, failed>>

__call__returns(beh) ==
    /\ stack # <<>>
    /\ Top.op = "__call__"
    /\ LET outcome == _hookexec(Top.methods, beh)
       IN  lastOp' = Event("__call__", "return", ErrorOf(outcome), NoPlugin, <<>>,
                           Top.kwargs, NoProc,
                           <<Dispatched(Top.methods, Top.kwargs, outcome)>>,
                           <<>>, FALSE)
    /\ stack' = Pop
    /\ UNCHANGED <<_wrappers, _nonwrappers, _specmodule_or_class, argnames,
                   spec_opts, _call_history, nextId, unregistered, failed>>

call_historic(proc, kwargs) ==
    /\ IF ~is_historic
       THEN \* self._call_history does not exist
            /\ lastOp' = Event("call_historic", "return", "AttributeError",
                               NoPlugin, <<>>, kwargs, proc, <<>>, <<>>, FALSE)
            /\ UNCHANGED <<_call_history, stack>>
       ELSE /\ Len(stack) < MaxDepth
            /\ Len(_call_history.list) < MaxHist
            /\ _call_history' =
                 [_call_history EXCEPT !.list =
                     Append(@, [kwargs |-> OrEmptyDict(kwargs), proc |-> proc])]
            /\ stack' = Append(stack,
                   Frame("call_historic", <<>>, proc, _nonwrappers \o _wrappers,
                         kwargs, NoChains, Chains, Len(_call_history.list) + 1))
            /\ lastOp' = Event("call_historic", "call", "None", NoPlugin, <<>>,
                               kwargs, proc, <<>>, <<>>, FALSE)
    /\ UNCHANGED <<_wrappers, _nonwrappers, _specmodule_or_class, argnames,
                   spec_opts, nextId, unregistered, failed>>

\* Variant: only the first result is handed to proc.
historic_callbacks_first(proc, res) ==
    IF proc = NoProc \/ res = <<>> THEN <<>>
    ELSE <<[proc |-> proc, value |-> res[1]]>>

\* `for x in res or []: proc(x)`, unless proc is None.
historic_callbacks(proc, res) ==
    IF proc = NoProc THEN <<>>
    ELSE [i \in 1..Len(res) |-> [proc |-> proc, value |-> res[i]]]

\* Variant: a call whose dispatch raises is taken off the record.
call_historic_returns_rollback(beh) ==
    /\ stack # <<>>
    /\ Top.op = "call_historic" /\ Top.phase = "dispatch"
    /\ LET outcome == _hookexec(Top.methods, beh)
           disp == <<Dispatched(Top.methods, Top.kwargs, outcome)>>
           todo == IF outcome.raised THEN <<>>
                   ELSE historic_callbacks(Top.proc, outcome.res)
       IN  /\ IF todo = <<>>
              THEN /\ stack' = Pop
                   /\ lastOp' = Event("call_historic", "return", ErrorOf(outcome),
                                      NoPlugin, <<>>, Top.kwargs, Top.proc, disp,
                                      <<>>, FALSE)
              ELSE /\ stack' = [stack EXCEPT ![Len(stack)] =
                                  InCallback(@, disp, todo, <<>>)]
                   /\ lastOp' = Event("call_historic", "callback", "None",
                                      NoPlugin, <<>>, Top.kwargs, Top.proc, disp,
                                      <<todo[1]>>, FALSE)
           /\ _call_history' =
                IF outcome.raised
                THEN [_call_history EXCEPT !.list = ListDelete(@, Top.idx)]
                ELSE _call_history
    /\ failed' = IF _hookexec(Top.methods, beh).raised
                 THEN failed \cup {Top.idx} ELSE failed
    /\ UNCHANGED <<_wrappers, _nonwrappers, _specmodule_or_class, argnames,
                   spec_opts, nextId, unregistered>>

\* The dispatch of call_historic returns: the call ends with its error, or
\* without a callback to make, or proc is called for the first result.
call_historic_returns(beh) ==
    /\ stack # <<>>
    /\ Top.op = "call_historic" /\ Top.phase = "dispatch"
    /\ LET outcome == _hookexec(Top.methods, beh)
           disp == <<Dispatched(Top.methods, Top.kwargs, outcome)>>
           todo == IF outcome.raised THEN <<>>
                   ELSE historic_callbacks(Top.proc, outcome.res)
       IN  IF todo = <<>>
           THEN /\ stack' = Pop
                /\ lastOp' = Event("call_historic", "return", ErrorOf(outcome),
                                   NoPlugin, <<>>, Top.kwargs, Top.proc, disp,
                                   <<>>, FALSE)
           ELSE /\ stack' = [stack EXCEPT ![Len(stack)] =
                               InCallback(@, disp, todo, <<>>)]
                /\ lastOp' = Event("call_historic", "callback", "None",
                                   NoPlugin, <<>>, Top.kwargs, Top.proc, disp,
                                   <<todo[1]>>, FALSE)
    /\ failed' = IF _hookexec(Top.methods, beh).raised
                 THEN failed \cup {Top.idx} ELSE failed
    /\ UNCHANGED <<_wrappers, _nonwrappers, _specmodule_or_class, argnames,
                   spec_opts, _call_history, nextId, unregistered>>

\* proc(x) returns or raises: `for x in res or []: proc(x)` goes on to the
\* next result, ends, or is left by the error.
call_historic_proc(raises) ==
    /\ stack # <<>>
    /\ Top.op = "call_historic" /\ Top.phase = "callback"
    /\ LET rest == Tail(Top.todo)
       IN  IF raises \/ rest = <<>>
           THEN /\ stack' = Pop
                /\ lastOp' = Event("call_historic", "return", ProcErrorOf(raises),
                                   NoPlugin, <<>>, Top.kwargs, Top.proc, Top.disp,
                                   Top.cbs, FALSE)
           ELSE /\ stack' = [stack EXCEPT ![Len(stack)] =
                               InCallback(@, Top.disp, rest, Top.cbs)]
                /\ lastOp' = Event("call_historic", "callback", "None",
                                   NoPlugin, <<>>, Top.kwargs, Top.proc, Top.disp,
                                   Append(Top.cbs, rest[1]), FALSE)
    /\ UNCHANGED <<_wrappers, _nonwrappers, _specmodule_or_class, argnames,
                   spec_opts, _call_history, nextId, unregistered, failed>>

\* call_extra: the loop, which HookImpl leaves with an AssertionError in front
\* of the try statement; then, inside it, self(**kwargs), which needs a
\* mapping, asserts that the caller is not historic, and dispatches.
call_extra(methods, kwargs) ==
    LET n == extras_made(methods, 1)
        old == Chains
        temp == add_extras(Chains, nextId, n)
        impls == extra_impls(nextId, n)
    IN  /\ nextId + n - 1 <= MaxImpls
        /\ nextId' = nextId + n
        /\ IF n < Len(methods)
           THEN \* raised by the loop: nothing restores the chains
                /\ _nonwrappers' = temp.nw
                /\ _wrappers' = temp.w
                /\ lastOp' = Event("call_extra", "return", "AssertionError",
                                   NoPlugin, impls, kwargs, NoProc, <<>>, <<>>,
                                   FALSE)
                /\ UNCHANGED stack
           ELSE IF kwargs.none \/ is_historic
           THEN \* self(**kwargs) fails; finally restores
                /\ _nonwrappers' = call_extra_finally(old, temp).nw
                /\ _wrappers' = call_extra_finally(old, temp).w
                /\ lastOp' = Event("call_extra", "return",
                                   IF kwargs.none THEN "TypeError"
                                   ELSE "AssertionError",
                                   NoPlugin, impls, kwargs, NoProc, <<>>, <<>>,
                                   FALSE)
                /\ UNCHANGED stack
           ELSE /\ Len(stack) < MaxDepth
                /\ _nonwrappers' = temp.nw
                /\ _wrappers' = temp.w
                /\ stack' = Append(stack,
                       Frame("call_extra", impls, NoProc, temp.nw \o temp.w,
                             kwargs, old, Chains, 0))
                /\ lastOp' = Event("call_extra", "call", "None", NoPlugin,
                                   impls, kwargs, NoProc, <<>>, <<>>,
                                   argnames # <<>> /\ notincall(kwargs) # {})
        /\ UNCHANGED <<_specmodule_or_class, argnames, spec_opts, _call_history,
                       unregistered, failed>>

call_extra_returns(beh) ==
    /\ stack # <<>>
    /\ Top.op = "call_extra"
    /\ LET outcome == _hookexec(Top.methods, beh)
           restored == call_extra_finally(Top.old, Chains)
       IN  /\ _nonwrappers' = restored.nw
           /\ _wrappers' = restored.w
           /\ lastOp' = Event("call_extra", "return", ErrorOf(outcome), NoPlugin,
                              Top.impls, Top.kwargs, NoProc,
                              <<Dispatched(Top.methods, Top.kwargs, outcome)>>,
                              <<>>, FALSE)
    /\ stack' = Pop
    /\ unregistered' = [p \in Plugins |->
                          IF unregistered[p] = "last" THEN "some"
                          ELSE unregistered[p]]
    /\ UNCHANGED <<_specmodule_or_class, argnames, spec_opts,
                   _call_history, nextId, failed>>

\* Variant: the replay records the first call once more.
_maybe_apply_history_recording(method) ==
    /\ IF ~is_historic \/ _call_history.list = <<>>
       THEN /\ lastOp' = Event("_maybe_apply_history", "return", "None", NoPlugin,
                               <<method>>, NoKwargs, NoProc, <<>>, <<>>, FALSE)
            /\ UNCHANGED <<stack, _call_history>>
       ELSE /\ Len(stack) < MaxDepth
            /\ _call_history' = [_call_history EXCEPT !.list = Append(@, @[1])]
            /\ stack' = Append(stack,
                   Frame("_maybe_apply_history", <<method>>,
                         _call_history.list[1].proc, <<method>>,
                         _call_history.list[1].kwargs, NoChains, Chains, 1))
            /\ lastOp' = Event("_maybe_apply_history", "call", "None", NoPlugin,
                               <<method>>, NoKwargs, NoProc, <<>>, <<>>, FALSE)
    /\ UNCHANGED <<_wrappers, _nonwrappers, _specmodule_or_class, argnames,
                   spec_opts, nextId, unregistered, failed>>

_maybe_apply_history(method) ==
    /\ IF ~is_historic \/ _call_history.list = <<>>
       THEN /\ lastOp' = Event("_maybe_apply_history", "return", "None", NoPlugin,
                               <<method>>, NoKwargs, NoProc, <<>>, <<>>, FALSE)
            /\ UNCHANGED stack
       ELSE /\ Len(stack) < MaxDepth
            /\ stack' = Append(stack,
                   Frame("_maybe_apply_history", <<method>>,
                         _call_history.list[1].proc, <<method>>,
                         _call_history.list[1].kwargs, NoChains, Chains, 1))
            /\ lastOp' = Event("_maybe_apply_history", "call", "None", NoPlugin,
                               <<method>>, NoKwargs, NoProc, <<>>, <<>>, FALSE)
    /\ UNCHANGED <<_wrappers, _nonwrappers, _specmodule_or_class, argnames,
                   spec_opts, _call_history, nextId, unregistered, failed>>

\* Variant: proc is called whether or not there is a result (0: no value).
replay_callbacks_unguarded(proc, res) ==
    IF proc # NoProc
    THEN <<[proc |-> proc, value |-> IF res # <<>> THEN res[1] ELSE 0]>>
    ELSE <<>>

\* `if res and proc is not None: proc(res[0])`
replay_callbacks(proc, res) ==
    IF res # <<>> /\ proc # NoProc
    THEN <<[proc |-> proc, value |-> res[1]]>>
    ELSE <<>>

\* The loop of _maybe_apply_history after an entry is done with: the next
\* entry of the history list as it is now, or the end of the loop.
replay_next(disp, cbs) ==
    LET next == Top.idx + 1
    IN  IF next > Len(_call_history.list)
        THEN /\ stack' = Pop
             /\ lastOp' = Event("_maybe_apply_history", "return", "None",
                                NoPlugin, Top.impls, NoKwargs, NoProc, disp, cbs,
                                FALSE)
        ELSE /\ stack' = [stack EXCEPT ![Len(stack)] =
                   [@ EXCEPT !.phase = "dispatch", !.idx = next,
                             !.kwargs = _call_history.list[next].kwargs,
                             !.proc = _call_history.list[next].proc,
                             !.disp = <<>>, !.todo = <<>>, !.cbs = <<>>]]
             /\ lastOp' = Event("_maybe_apply_history", "call", "None",
                                NoPlugin, Top.impls, NoKwargs, NoProc, disp, cbs,
                                FALSE)

\* The dispatch of one history entry returns: the replay ends with its error,
\* or proc is called for the first result, or the loop goes on.
_maybe_apply_history_resumes(beh) ==
    /\ stack # <<>>
    /\ Top.op = "_maybe_apply_history" /\ Top.phase = "dispatch"
    /\ LET outcome == _hookexec(Top.methods, beh)
           disp == <<Dispatched(Top.methods, Top.kwargs, outcome)>>
           todo == IF outcome.raised THEN <<>>
                   ELSE replay_callbacks(Top.proc, outcome.res)
       IN  IF outcome.raised
           THEN /\ stack' = Pop
                /\ lastOp' = Event("_maybe_apply_history", "return",
                                   ErrorOf(outcome), NoPlugin, Top.impls, NoKwargs,
                                   NoProc, disp, <<>>, FALSE)
           ELSE IF todo # <<>>
           THEN /\ stack' = [stack EXCEPT ![Len(stack)] =
                               InCallback(@, disp, todo, <<>>)]
                /\ lastOp' = Event("_maybe_apply_history", "callback", "None",
                                   NoPlugin, Top.impls, NoKwargs, NoProc, disp,
                                   <<todo[1]>>, FALSE)
           ELSE replay_next(disp, <<>>)
    /\ UNCHANGED <<_wrappers, _nonwrappers, _specmodule_or_class, argnames,
                   spec_opts, _call_history, nextId, unregistered, failed>>

\* proc(res[0]) returns or raises: the loop goes on, or is left by the error.
_maybe_apply_history_proc(raises) ==
    /\ stack # <<>>
    /\ Top.op = "_maybe_apply_history" /\ Top.phase = "callback"
    /\ IF raises
       THEN /\ stack' = Pop
            /\ lastOp' = Event("_maybe_apply_history", "return",
                               ProcErrorOf(raises), NoPlugin, Top.impls, NoKwargs,
                               NoProc, Top.disp, Top.cbs, FALSE)
       ELSE replay_next(Top.disp, Top.cbs)
    /\ UNCHANGED <<_wrappers, _nonwrappers, _specmodule_or_class, argnames,
                   spec_opts, _call_history, nextId, unregistered, failed>>

\* ----------------------------------------------------------- specification

\* Only a wrapper can put two results in the place of the outcome.
BehavioursOf(methods) ==
    {beh \in [1..Len(methods) -> Behaviours] :
        \A i \in DOMAIN methods : beh[i] = "values" => methods[i].hookwrapper}

\* The caller with every operation.
Next ==
    \/ \E sm \in SpecModules, opts \in HookspecOpts \cup {NoneOpts, NoOpts} :
          set_specification(sm, opts)
    \/ \E plugin \in Plugins, opts \in ImplOpts : _add_hookimpl(plugin, opts)
    \/ \E plugin \in Plugins \cup {NoPlugin} : _remove_plugin(plugin)
    \/ \E args \in BOOLEAN, kwargs \in Mappings : __call__(args, kwargs)
    \/ stack # <<>> /\ \E beh \in BehavioursOf(Top.methods) : __call__returns(beh)
    \/ \E proc \in Procs, kwargs \in {NoKwargs} \cup Mappings :
          call_historic(proc, kwargs)
    \/ stack # <<>> /\ \E beh \in BehavioursOf(Top.methods) :
          call_historic_returns(beh)
    \/ \E raises \in BOOLEAN : call_historic_proc(raises)
    \/ \E methods \in MethodLists(MaxImpls), kwargs \in {NoKwargs} \cup Mappings :
          call_extra(methods, kwargs)
    \/ stack # <<>> /\ \E beh \in BehavioursOf(Top.methods) : call_extra_returns(beh)
    \/ \E method \in Range(_nonwrappers \o _wrappers) : _maybe_apply_history(method)
    \/ stack # <<>> /\ \E beh \in BehavioursOf(Top.methods) :
          _maybe_apply_history_resumes(beh)
    \/ \E raises \in BOOLEAN : _maybe_apply_history_proc(raises)

Spec == Init /\ [][Next]_vars

\* The chains alone: implementations are added and plugins removed.
NextChain ==
    \/ \E plugin \in Plugins, opts \in ImplOpts : _add_hookimpl(plugin, opts)
    \/ \E plugin \in Plugins \cup {NoPlugin} : _remove_plugin(plugin)

SpecChain == Init /\ [][NextChain]_vars

\* A non-historic caller that is called, also with extra methods, while the
\* dispatched implementations add to and remove from its chains and call it
\* again (an implementation dispatched by call_extra calls the hook, one
\* dispatched by __call__ calls it with extra methods).
InitExtra == __init__("SpecA", NoOpts)

NextExtra ==
    \/ \E opts \in ImplOpts :
          /\ nextId <= MaxCallImpls
          /\ ~opts.trylast /\ ~(opts.hookwrapper /\ opts.tryfirst)
          /\ _add_hookimpl("p1", opts)
    \/ \E plugin \in {"p1", NoPlugin} : _remove_plugin(plugin)
    \/ /\ IF stack = <<>> THEN TRUE ELSE Top.op = "call_extra"
       /\ __call__(FALSE, Dict(ParamNames))
    \/ stack # <<>> /\ \E beh \in BehavioursOf(Top.methods) : __call__returns(beh)
    \/ \E methods \in MethodListsToFirstSelf(MaxCallImpls) :
          /\ IF stack = <<>> THEN TRUE ELSE Top.op = "__call__"
          /\ nextId + Len(methods) - 1 <= MaxCallImpls
          /\ call_extra(methods, Dict(ParamNames))
    \/ stack # <<>> /\ \E beh \in BehavioursOf(Top.methods) : call_extra_returns(beh)

SpecExtra == InitExtra /\ [][NextExtra]_vars

\* A historic caller: implementations are added and removed between the
\* calls, calls are recorded and replayed, and the callback of a replay makes
\* a call of its own.
InitHistoric == __init__("SpecA", [firstresult |-> FALSE, historic |-> TRUE])

NextHistoric ==
    \/ \E hookwrapper \in BOOLEAN :
          /\ stack = <<>>
          /\ nextId <= MaxCallImpls
          /\ _add_hookimpl("p1", [hookwrapper |-> hookwrapper,
                                  tryfirst |-> FALSE, trylast |-> FALSE])
    \/ \E plugin \in Plugins : stack = <<>> /\ _remove_plugin(plugin)
    \/ \E proc \in Procs, kwargs \in {NoKwargs, Dict(ParamNames)} :
          /\ stack = <<>>
          /\ proc = NoProc => kwargs = NoKwargs
          /\ call_historic(proc, kwargs)
    \/ /\ stack # <<>>
       /\ Top.op = "_maybe_apply_history" /\ Top.phase = "callback"
       /\ call_historic(NoProc, Dict({}))
    \/ stack # <<>> /\ \E beh \in BehavioursOf(Top.methods) :
          call_historic_returns(beh)
    \/ \E method \in Range(_nonwrappers \o _wrappers) :
          stack = <<>> /\ _maybe_apply_history(method)
    \/ stack # <<>> /\ \E beh \in BehavioursOf(Top.methods) :
          _maybe_apply_history_resumes(beh)
    \/ \E raises \in BOOLEAN : call_historic_proc(raises)
    \/ \E raises \in BOOLEAN : _maybe_apply_history_proc(raises)

SpecHistoric == InitHistoric /\ [][NextHistoric]_vars

\* A caller that is bound to a specification and called through both paths.
NextBinding ==
    \/ \E sm \in SpecModules, opts \in HookspecOpts \cup {NoneOpts} :
          set_specification(sm, opts)
    \/ \E hookwrapper \in BOOLEAN :
          /\ nextId <= MaxCallImpls
          /\ _add_hookimpl("p1", [hookwrapper |-> hookwrapper,
                                  tryfirst |-> FALSE, trylast |-> FALSE])
    \/ \E args \in BOOLEAN, kwargs \in Mappings :
          stack = <<>> /\ __call__(args, kwargs)
    \/ stack # <<>> /\ \E beh \in BehavioursOf(Top.methods) : __call__returns(beh)
    \/ \E proc \in Procs, kwargs \in {NoKwargs} \cup Mappings :
          stack = <<>> /\ call_historic(proc, kwargs)
    \/ stack # <<>> /\ \E beh \in BehavioursOf(Top.methods) :
          call_historic_returns(beh)
    \/ \E raises \in BOOLEAN : call_historic_proc(raises)

SpecBinding == Init /\ [][NextBinding]_vars

\* A historic caller whose chains are built from implementations of every
\* kind, between recorded calls whose implementations return nothing.
NextHistoricChain ==
    \/ \E opts \in ImplOpts : stack = <<>> /\ _add_hookimpl("p1", opts)
    \/ stack = <<>> /\ _remove_plugin("p1")
    \/ stack = <<>> /\ call_historic(NoProc, NoKwargs)
    \/ stack # <<>> /\ call_historic_returns([i \in DOMAIN Top.methods |-> "none"])

SpecHistoricChain == InitHistoric /\ [][NextHistoricChain]_vars

\* A caller, bound to a specification of either kind, whose chains hold
\* implementations of every kind when it is called with extra methods; the
\* dispatched implementations return nothing.
NextExtraOrder ==
    \/ \E historic \in BOOLEAN :
          set_specification("SpecA", [firstresult |-> FALSE, historic |-> historic])
    \/ \E opts \in ImplOpts : stack = <<>> /\ _add_hookimpl("p1", opts)
    \/ \E methods \in MethodListsToFirstSelf(MaxImpls),
          kwargs \in {NoKwargs, Dict(ParamNames)} :
          stack = <<>> /\ call_extra(methods, kwargs)
    \/ stack # <<>> /\ call_extra_returns([i \in DOMAIN Top.methods |-> "none"])

SpecExtraOrder == Init /\ [][NextExtraOrder]_vars

\* A caller of either kind that is called through its path while the
\* dispatched implementations add to and remove from its chains.
NextSnapshot ==
    \/ \E historic \in BOOLEAN :
          set_specification("SpecA", [firstresult |-> FALSE, historic |-> historic])
    \/ \E hookwrapper \in BOOLEAN :
          /\ nextId <= MaxCallImpls
          /\ _add_hookimpl("p1", [hookwrapper |-> hookwrapper,
                                  tryfirst |-> FALSE, trylast |-> FALSE])
    \/ _remove_plugin("p1")
    \/ stack = <<>> /\ __call__(FALSE, Dict(ParamNames))
    \/ stack # <<>> /\ \E beh \in BehavioursOf(Top.methods) : __call__returns(beh)
    \/ stack = <<>> /\ call_historic(NoProc, NoKwargs)
    \/ stack # <<>> /\ \E beh \in BehavioursOf(Top.methods) :
          call_historic_returns(beh)

SpecSnapshot == Init /\ [][NextSnapshot]_vars

\* ------------------------------------------------------------- the claims

\* The members of S in the order of their creation, and in the reverse order.
RECURSIVE AscById(_)
AscById(S) ==
    IF S = {} THEN <<>>
    ELSE LET m == CHOOSE x \in S : \A y \in S : x.id <= y.id
         IN  <<m>> \o AscById(S \ {m})

RECURSIVE DescById(_)
DescById(S) ==
    IF S = {} THEN <<>>
    ELSE LET m == CHOOSE x \in S : \A y \in S : x.id >= y.id
         IN  <<m>> \o DescById(S \ {m})

TryLastOf(chain) == {x \in Range(chain) : x.trylast /\ ~x.tryfirst}
NormalOf(chain) == {x \in Range(chain) : ~x.trylast /\ ~x.tryfirst}
TryFirstOf(chain) == {x \in Range(chain) : x.tryfirst /\ ~x.trylast}
BothFlags(x) == x.tryfirst /\ x.trylast
WellFlagged(chain) == \A x \in Range(chain) : ~BothFlags(x)

\* after is before without its i-th entry.
IsDeletion(before, after, i) ==
    /\ i \in DOMAIN before
    /\ Len(after) = Len(before) - 1
    /\ \A j \in 1..(i - 1) : after[j] = before[j]
    /\ \A j \in i..Len(after) : after[j] = before[j + 1]

\* C1, as claimed: a chain whose entries have at most one of tryfirst/trylast
\* reads: its trylast entries in registration order, then its normal entries in
\* registration order, then its tryfirst entries in registration order.
C1_RegistrationOrder ==
    \A chain \in {_nonwrappers, _wrappers} :
        WellFlagged(chain) =>
            chain = AscById(TryLastOf(chain)) \o AscById(NormalOf(chain))
                    \o AscById(TryFirstOf(chain))

\* C1, amended: the trylast entries come in reverse registration order (the
\* latest first), then the normal entries in registration order, then the
\* tryfirst entries in registration order.
C1_TrylastReversed ==
    \A chain \in {_nonwrappers, _wrappers} :
        WellFlagged(chain) =>
            chain = DescById(TryLastOf(chain)) \o AscById(NormalOf(chain))
                    \o AscById(TryFirstOf(chain))

\* C1, witness: a wrapper was registered between two trylast non-wrappers.
C1_Witness ==
    /\ lastOp.op = "_add_hookimpl"
    /\ Len(_wrappers) = 1 /\ Len(_nonwrappers) = 2
    /\ WellFlagged(_nonwrappers)
    /\ Cardinality(TryLastOf(_nonwrappers)) = 2
    /\ \A x \in Range(_nonwrappers) : x.id # 2

\* C3: _remove_plugin of a plugin that owns an entry succeeds, deletes exactly
\* one entry owned by it from one chain, and leaves the other entries of both
\* chains as they were, in the same order.
C3_RemoveDeletesOne ==
    [][ (lastOp'.op = "_remove_plugin" /\ Owned(Chains, lastOp'.plugin) > 0) =>
          /\ lastOp'.err = "None"
          /\ \/ /\ _nonwrappers' = _nonwrappers
                /\ \E i \in DOMAIN _wrappers :
                      /\ _wrappers[i].plugin = lastOp'.plugin
                      /\ IsDeletion(_wrappers, _wrappers', i)
             \/ /\ _wrappers' = _wrappers
                /\ \E i \in DOMAIN _nonwrappers :
                      /\ _nonwrappers[i].plugin = lastOp'.plugin
                      /\ IsDeletion(_nonwrappers, _nonwrappers', i) ]_vars

\* C3, witness: a removal succeeded and left entries in both chains, one of
\* them owned by the removed plugin.
C3_Witness ==
    /\ lastOp.op = "_remove_plugin" /\ lastOp.err = "None"
    /\ _wrappers # <<>> /\ _nonwrappers # <<>>
    /\ Owned(Chains, lastOp.plugin) > 0

\* C4: _remove_plugin of a plugin that owns no entry raises ValueError and
\* leaves both chains and the call history as they were.
C4_RemoveAbsentFails ==
    [][ (lastOp'.op = "_remove_plugin" /\ Owned(Chains, lastOp'.plugin) = 0) =>
          /\ lastOp'.err = "ValueError"
          /\ UNCHANGED <<_wrappers, _nonwrappers, _call_history>> ]_vars

\* C4, witness: a removal failed while the chains held entries of another
\* plugin and the history held a call.
C4_Witness ==
    /\ lastOp.op = "_remove_plugin" /\ lastOp.err = "ValueError"
    /\ _wrappers \o _nonwrappers # <<>>
    /\ _call_history.list # <<>>

\* C9, as claimed: adding an implementation with tryfirst and trylast both set
\* fails, and no chain ever holds such an entry.
C9_ContradictoryFlagsRejected ==
    /\ \A x \in Range(_nonwrappers \o _wrappers) : ~BothFlags(x)
    /\ (lastOp.op = "_add_hookimpl" /\ BothFlags(lastOp.impls[1])) =>
          lastOp.err # "None"

\* C10, as claimed: once _remove_plugin(plugin) has succeeded and no
\* implementation of that plugin was added since, _remove_plugin(plugin) fails.
C10_SecondRemovalFails ==
    [][ (lastOp'.op = "_remove_plugin" /\ lastOp'.plugin \in Plugins
         /\ unregistered[lastOp'.plugin] # "no") =>
          lastOp'.err = "ValueError" ]_vars

\* C10, amended: the second removal fails when the first one removed the only
\* entry the plugin owned and no call_extra has restored the chains since.
C10_SecondRemovalFailsAfterLast ==
    [][ (lastOp'.op = "_remove_plugin" /\ lastOp'.plugin \in Plugins
         /\ unregistered[lastOp'.plugin] = "last") =>
          /\ lastOp'.err = "ValueError"
          /\ UNCHANGED <<_wrappers, _nonwrappers>> ]_vars

\* C10, witness: the plugin's only entry was removed, and a second removal has
\* failed.
C10_Witness ==
    /\ lastOp.op = "_remove_plugin" /\ lastOp.err = "ValueError"
    /\ lastOp.plugin \in Plugins
    /\ unregistered[lastOp.plugin] = "last"

\* A step that enters an operation (its dispatch starts, or it fails at once),
\* and a step in which an operation's dispatch returns and the operation ends.
Enters == Len(stack') >= Len(stack) /\ lastOp'.disp = <<>>
Ends == Len(stack') < Len(stack)

\* s is a prefix of t.
IsPrefix(s, t) == Len(s) <= Len(t) /\ SubSeq(t, 1, Len(s)) = s

\* proc is called once for each result, in the order of the results, and not
\* at all when there is no proc.
CallbacksMatch(cbs, proc, res) ==
    IF proc = NoProc THEN cbs = <<>>
    ELSE /\ Len(cbs) = Len(res)
         /\ \A i \in DOMAIN cbs : cbs[i] = [proc |-> proc, value |-> res[i]]

\* C2, as claimed: when call_extra returns on a non-historic caller, with a
\* result or with an error, both chains are what they were when it was called,
\* whatever was added or removed during the dispatch.
C2_CallExtraRestores ==
    [][ (lastOp'.op = "call_extra" /\ lastOp'.phase = "return"
         /\ ~_call_history.exists) =>
          IF Ends
          THEN _nonwrappers' = Top.pre.nw /\ _wrappers' = Top.pre.w
          ELSE UNCHANGED <<_wrappers, _nonwrappers>> ]_vars

\* C5, as claimed: a replay ends having dispatched every entry of the
\* history, and calls an entry's callback once for each result of its dispatch.
C5_ReplaysEveryEntry ==
    [][ (lastOp'.op = "_maybe_apply_history" /\ ~Enters) =>
          /\ Ends => Top.idx = Len(_call_history.list)
          /\ CallbacksMatch(lastOp'.cbs, _call_history.list[Top.idx].proc,
                            lastOp'.disp[1].res) ]_vars

\* proc is called once, with the first result, when there is a proc and a
\* result, and not at all otherwise.
FirstResultOnly(cbs, proc, res) ==
    IF proc = NoProc \/ res = <<>> THEN cbs = <<>>
    ELSE cbs = <<[proc |-> proc, value |-> res[1]]>>

\* The loop of a replay goes on from entry idx of hist: to the dispatch of the
\* next entry, or, behind the last entry, to its end without an error.
ReplayGoesOn(hist) ==
    IF Top.idx = Len(hist)
    THEN Ends /\ lastOp'.err = "None"
    ELSE /\ Len(stack') = Len(stack)
         /\ Top'.phase = "dispatch"
         /\ Top'.idx = Top.idx + 1
         /\ Top'.methods = lastOp'.impls
         /\ Top'.kwargs = hist[Top.idx + 1].kwargs

\* C5, amended: a replay dispatches the entries in recording order, starting
\* with the first, each over the list holding only the replayed implementation
\* and with the kwargs of the entry, and calls the entry's callback once, with
\* the first result of that dispatch (never without a callback or without a
\* result); it ends after the last entry, or at the first dispatch that
\* raises, or at the first callback that raises.
C5_ReplaysInOrderUntilRaise ==
    [][ (lastOp'.op = "_maybe_apply_history" /\ _call_history.exists) =>
          LET hist == _call_history.list
          IN  IF Enters
              THEN IF hist = <<>> THEN UNCHANGED stack
                   ELSE /\ stack' = Append(stack, Top')
                        /\ Top'.idx = 1
                        /\ Top'.methods = lastOp'.impls
                        /\ Len(Top'.methods) = 1
                        /\ Top'.kwargs = hist[1].kwargs
              ELSE /\ Len(lastOp'.disp) = 1
                   /\ lastOp'.disp[1].methods = lastOp'.impls
                   /\ Len(lastOp'.impls) = 1
                   /\ lastOp'.disp[1].kwargs = hist[Top.idx].kwargs
                   /\ FirstResultOnly(lastOp'.cbs, hist[Top.idx].proc,
                                      lastOp'.disp[1].res)
                   /\ IF Top.phase = "dispatch"
                      THEN IF lastOp'.disp[1].raised
                           THEN Ends /\ lastOp'.err = "HookError"
                           ELSE IF lastOp'.cbs # <<>>
                           THEN /\ lastOp'.phase = "callback"
                                /\ Len(stack') = Len(stack)
                                /\ Top'.phase = "callback"
                                /\ Top'.idx = Top.idx
                           ELSE ReplayGoesOn(hist)
                      ELSE /\ lastOp'.disp = Top.disp
                           /\ lastOp'.cbs = Top.cbs
                           /\ \/ Ends /\ lastOp'.err = "ProcError"
                              \/ ReplayGoesOn(hist) ]_vars

\* C5, witness: a replay of two recorded calls has ended without an error; the
\* dispatch of the second returned two results, and its callback was called.
C5_Witness ==
    /\ lastOp.op = "_maybe_apply_history" /\ lastOp.phase = "return"
    /\ lastOp.err = "None"
    /\ Len(_call_history.list) = 2
    /\ Len(lastOp.disp[1].res) = 2
    /\ lastOp.cbs # <<>>

\* C6, as claimed: call_historic appends the entry (kwargs, proc), with the
\* kwargs it was given.
C6_AppendsGivenKwargs ==
    [][ (lastOp'.op = "call_historic" /\ _call_history.exists /\ Enters) =>
          _call_history'.list =
              Append(_call_history.list,
                     [kwargs |-> lastOp'.kwargs, proc |-> lastOp'.proc]) ]_vars

\* C6, amended: call_historic appends one entry, (kwargs, proc), an absent
\* kwargs being recorded as the empty mapping; dispatches once, over the
\* chains as they were then, non-wrappers first; and calls proc for the
\* results returned, one after the other in their order, until the last
\* result or until proc raises, or not at all without a proc.
C6_CallHistoric ==
    [][ (lastOp'.op = "call_historic" /\ _call_history.exists) =>
          IF Enters
          THEN /\ _call_history'.list =
                    Append(_call_history.list,
                           [kwargs |-> IF lastOp'.kwargs.none THEN Dict({})
                                       ELSE lastOp'.kwargs,
                            proc |-> lastOp'.proc])
               /\ stack' = Append(stack, Top')
               /\ Top'.methods = _nonwrappers \o _wrappers
               /\ Top'.kwargs = lastOp'.kwargs
          ELSE /\ UNCHANGED _call_history
               /\ Len(lastOp'.disp) = 1
               /\ lastOp'.disp[1].methods = Top.pre.nw \o Top.pre.w
               /\ Top.phase = "callback" =>
                    /\ lastOp'.disp = Top.disp
                    /\ IsPrefix(Top.cbs, lastOp'.cbs)
                    /\ Len(lastOp'.cbs) <= Len(Top.cbs) + 1
               /\ IF Ends
                  THEN IF lastOp'.err = "None"
                       THEN CallbacksMatch(lastOp'.cbs, lastOp'.proc,
                                           lastOp'.disp[1].res)
                       ELSE IF lastOp'.err = "ProcError"
                       THEN /\ lastOp'.cbs # <<>>
                            /\ CallbacksMatch(lastOp'.cbs, lastOp'.proc,
                                   SubSeq(lastOp'.disp[1].res, 1, Len(lastOp'.cbs)))
                       ELSE lastOp'.disp[1].raised /\ lastOp'.cbs = <<>>
                  ELSE /\ lastOp'.phase = "callback"
                       /\ Len(stack') = Len(stack)
                       /\ lastOp'.cbs # <<>>
                       /\ Len(lastOp'.cbs) <= Len(lastOp'.disp[1].res)
                       /\ CallbacksMatch(lastOp'.cbs, lastOp'.proc,
                              SubSeq(lastOp'.disp[1].res, 1, Len(lastOp'.cbs))) ]_vars

\* C6, witness: a call_historic without kwargs has returned after calling
\* proc for two results.
C6_Witness ==
    /\ lastOp.op = "call_historic" /\ lastOp.phase = "return"
    /\ lastOp.kwargs.none
    /\ Len(lastOp.cbs) = 2
    /\ _call_history.list # <<>>

\* C7: __call__ on a historic caller, and call_historic on a non-historic
\* caller, fail without a dispatch and change neither the chains nor the
\* history (a non-historic caller gets none).
C7_WrongPathRejected ==
    [][ ( /\ Enters
          /\ \/ lastOp'.op = "__call__" /\ _call_history.exists
             \/ lastOp'.op = "call_historic" /\ ~_call_history.exists ) =>
          /\ lastOp'.err # "None"
          /\ lastOp'.phase = "return"
          /\ UNCHANGED <<stack, _wrappers, _nonwrappers, _call_history>> ]_vars

\* C7, witness: __call__ with keyword arguments only has failed on a historic
\* caller that holds an implementation and a recorded call.
C7_Witness ==
    /\ lastOp.op = "__call__" /\ lastOp.err = "AssertionError"
    /\ _call_history.list # <<>>
    /\ _nonwrappers # <<>>

\* C8: set_specification on a caller that has a specification fails and leaves
\* the specification, argnames, the options and the history as they were.
C8_BindingIsOneShot ==
    [][ (lastOp'.op = "set_specification" /\ _specmodule_or_class # NoSpec) =>
          /\ lastOp'.err = "AssertionError"
          /\ UNCHANGED <<_specmodule_or_class, argnames, spec_opts,
                         _call_history>> ]_vars

\* C8, witness: a second binding has failed on a historic caller with a
\* recorded call.
C8_Witness ==
    /\ lastOp.op = "set_specification" /\ lastOp.err = "AssertionError"
    /\ _call_history.list # <<>>

\* C11: __call__ with keyword arguments only on a non-historic caller starts
\* one dispatch over _nonwrappers ++ _wrappers with the kwargs given, warning
\* (and nothing else) when a declared argument is missing, and returns with
\* the outcome of that dispatch; with a positional argument it fails at once.
C11_CallDispatchesOnce ==
    [][ /\ (\E kwargs \in Mappings : __call__(TRUE, kwargs)) =>
              /\ lastOp'.err = "TypeError"
              /\ lastOp'.phase = "return"
              /\ lastOp'.disp = <<>>
              /\ UNCHANGED <<stack, _wrappers, _nonwrappers>>
        /\ (~_call_history.exists /\ \E kwargs \in Mappings : __call__(FALSE, kwargs)) =>
              /\ lastOp'.op = "__call__"
              /\ lastOp'.phase = "call" /\ lastOp'.err = "None"
              /\ stack' = Append(stack, Top')
              /\ Top'.op = "__call__"
              /\ Top'.methods = _nonwrappers \o _wrappers
              /\ Top'.kwargs = lastOp'.kwargs
              /\ lastOp'.warned <=>
                    (Range(argnames) \ {"__multicall__"}) \ lastOp'.kwargs.keys # {}
              /\ UNCHANGED <<_wrappers, _nonwrappers>>
        /\ (lastOp'.op = "__call__" /\ Ends) =>
              /\ Top.op = "__call__"
              /\ stack' = Pop
              /\ Len(lastOp'.disp) = 1
              /\ lastOp'.disp[1].methods = Top.methods
              /\ lastOp'.disp[1].kwargs = Top.kwargs
              /\ (lastOp'.err # "None") <=> lastOp'.disp[1].raised ]_vars

\* C11, witness: a call that omitted the declared argument has returned the
\* results of its dispatch over a non-wrapper and a wrapper.
C11_Witness ==
    /\ lastOp.op = "__call__" /\ lastOp.phase = "return"
    /\ lastOp.err = "None"
    /\ argnames # <<>>
    /\ lastOp.kwargs.keys = {}
    /\ Len(lastOp.disp) = 1
    /\ Len(lastOp.disp[1].methods) = 2
    /\ ~lastOp.disp[1].methods[1].hookwrapper
    /\ lastOp.disp[1].methods[2].hookwrapper
    /\ lastOp.disp[1].res # <<>>

\* The block an entry belongs to: trylast, normal, tryfirst.
Block(x) == IF x.trylast THEN 0 ELSE IF x.tryfirst THEN 2 ELSE 1

\* C12: in each chain whose entries have at most one of tryfirst/trylast set,
\* every trylast entry precedes every normal entry and every normal entry
\* precedes every tryfirst entry, after any additions and removals.
C12_ThreeBlocks ==
    \A chain \in {_nonwrappers, _wrappers} :
        WellFlagged(chain) =>
            \A i, j \in DOMAIN chain : i < j => Block(chain[i]) <= Block(chain[j])

\* C12, witness: after a removal, a tryfirst entry registered before a trylast
\* entry stands behind it.
C12_Witness ==
    /\ lastOp.op = "_remove_plugin" /\ lastOp.err = "None"
    /\ Len(_nonwrappers) = 2
    /\ _nonwrappers[1].trylast /\ ~_nonwrappers[1].tryfirst
    /\ _nonwrappers[2].tryfirst /\ ~_nonwrappers[2].trylast
    /\ _nonwrappers[2].id < _nonwrappers[1].id

\* C13: _add_hookimpl adds one entry, to _wrappers when it is a wrapper and to
\* _nonwrappers otherwise, and leaves the other chain, the order of the
\* entries the chosen chain had, and the history as they were; so _wrappers
\* only holds wrappers and _nonwrappers only non-wrappers.
C13_AddToOneChain ==
    [][ /\ lastOp'.op = "_add_hookimpl" =>
              LET hookimpl == lastOp'.impls[1]
              IN  /\ IF hookimpl.hookwrapper
                     THEN /\ _nonwrappers' = _nonwrappers
                          /\ \E i \in DOMAIN _wrappers' :
                                /\ _wrappers'[i] = hookimpl
                                /\ IsDeletion(_wrappers', _wrappers, i)
                     ELSE /\ _wrappers' = _wrappers
                          /\ \E i \in DOMAIN _nonwrappers' :
                                /\ _nonwrappers'[i] = hookimpl
                                /\ IsDeletion(_nonwrappers', _nonwrappers, i)
                  /\ hookimpl \notin Range(_nonwrappers \o _wrappers)
                  /\ UNCHANGED _call_history
        /\ \A x \in Range(_wrappers') : x.hookwrapper
        /\ \A x \in Range(_nonwrappers') : ~x.hookwrapper ]_vars

\* C13, witness: with a call on record, a normal non-wrapper was added between
\* the two non-wrappers there were.
C13_Witness ==
    /\ lastOp.op = "_add_hookimpl"
    /\ _call_history.list # <<>>
    /\ Len(_nonwrappers) = 3
    /\ lastOp.impls[1] = _nonwrappers[2]

\* The plugin owns an entry of the chain.
OwnsIn(chain, plugin) == \E x \in Range(chain) : x.plugin = plugin

\* The first entry of the chain owned by the plugin is deleted.
FirstOwnedDeleted(before, after, plugin) ==
    \E i \in DOMAIN before :
        /\ before[i].plugin = plugin
        /\ \A j \in 1..(i - 1) : before[j].plugin # plugin
        /\ IsDeletion(before, after, i)

\* C14, as claimed: when the plugin owns an entry in both chains,
\* _remove_plugin deletes its first entry of _nonwrappers and leaves _wrappers
\* unchanged.
C14_NonwrappersFirst ==
    [][ (/\ lastOp'.op = "_remove_plugin"
         /\ OwnsIn(_nonwrappers, lastOp'.plugin)
         /\ OwnsIn(_wrappers, lastOp'.plugin)) =>
          /\ _wrappers' = _wrappers
          /\ FirstOwnedDeleted(_nonwrappers, _nonwrappers', lastOp'.plugin) ]_vars

\* C14, amended: when the plugin owns an entry in both chains, _remove_plugin
\* deletes its first entry of _wrappers and leaves _nonwrappers unchanged.
C14_WrappersFirst ==
    [][ (/\ lastOp'.op = "_remove_plugin"
         /\ OwnsIn(_nonwrappers, lastOp'.plugin)
         /\ OwnsIn(_wrappers, lastOp'.plugin)) =>
          /\ lastOp'.err = "None"
          /\ _nonwrappers' = _nonwrappers
          /\ FirstOwnedDeleted(_wrappers, _wrappers', lastOp'.plugin) ]_vars

\* C14, witness: a wrapper of the plugin was removed while a non-wrapper the
\* plugin had registered before it stays.
C14_Witness ==
    /\ lastOp.op = "_remove_plugin" /\ lastOp.err = "None"
    /\ Len(lastOp.impls) = 1
    /\ lastOp.impls[1].hookwrapper
    /\ \E x \in Range(_nonwrappers) :
          x.plugin = lastOp.plugin /\ x.id < lastOp.impls[1].id

\* C15, as claimed: when _add_hookimpl returns on a historic caller, it has
\* dispatched every entry of the history to the new implementation.
C15_AddReplays ==
    [][ (lastOp'.op = "_add_hookimpl" /\ lastOp'.phase = "return"
         /\ _call_history.exists) =>
          Len(lastOp'.disp) = Len(_call_history.list) ]_vars

\* C15, amended: _add_hookimpl on a historic caller only inserts the
\* implementation: it returns without a dispatch or a callback, whatever the
\* history holds; the history is replayed against an implementation by
\* _maybe_apply_history, which starts with the first entry and a list that
\* holds that implementation only.
C15_AddDoesNotReplay ==
    [][ /\ (lastOp'.op = "_add_hookimpl" /\ _call_history.exists) =>
              /\ lastOp'.phase = "return" /\ lastOp'.err = "None"
              /\ lastOp'.disp = <<>> /\ lastOp'.cbs = <<>>
              /\ lastOp'.impls[1] \in Range(_nonwrappers' \o _wrappers')
              /\ UNCHANGED <<stack, _call_history>>
        /\ \A f \in Range(stack') :
              f.op = "_maybe_apply_history" => f.methods = f.impls
        /\ (/\ lastOp'.op = "_maybe_apply_history" /\ Enters
            /\ _call_history.exists /\ _call_history.list # <<>>) =>
              /\ stack' = Append(stack, Top')
              /\ Top'.op = "_maybe_apply_history"
              /\ Top'.methods = lastOp'.impls
              /\ Top'.idx = 1 ]_vars

\* C15, witness: an implementation was added to a historic caller that has two
\* calls on record, and no dispatch is in progress.
C15_Witness ==
    /\ lastOp.op = "_add_hookimpl"
    /\ Len(_call_history.list) = 2
    /\ stack = <<>>
    /\ lastOp.impls[1] \in Range(_nonwrappers \o _wrappers)

\* C16: every step of a historic caller leaves the history it had as a prefix
\* of the history it has; only the entry into call_historic lengthens it, by
\* one entry, and a replay leaves it unchanged.
C16_HistoryAppendOnly ==
    [][ _call_history.exists =>
          /\ _call_history'.exists
          /\ IsPrefix(_call_history.list, _call_history'.list)
          /\ IF lastOp'.op = "call_historic" /\ Enters
             THEN Len(_call_history'.list) = Len(_call_history.list) + 1
             ELSE UNCHANGED _call_history ]_vars

\* C16, witness: a replay that ended with an error has left two recorded
\* calls, with and without a callback, on record.
C16_Witness ==
    /\ lastOp.op = "_maybe_apply_history" /\ lastOp.phase = "return"
    /\ lastOp.err = "HookError"
    /\ Len(_call_history.list) = 2
    /\ _call_history.list[1].proc # _call_history.list[2].proc

\* The chain with the extras put in, in the order given, behind its entry k.
WithExtras(chain, k, extras) ==
    SubSeq(chain, 1, k) \o extras \o SubSeq(chain, k + 1, Len(chain))

\* The extras are normal non-wrappers, each a different object.
NormalExtras(extras) ==
    /\ \A i \in DOMAIN extras :
          ~extras[i].hookwrapper /\ ~extras[i].tryfirst /\ ~extras[i].trylast
    /\ \A i, j \in DOMAIN extras : i # j => extras[i] # extras[j]

\* C17, as claimed: call_extra starts one dispatch over the non-wrappers, with
\* the extras behind every trylast and normal entry and before every tryfirst
\* entry, followed by the wrappers.
C17_ExtrasBetweenBlocks ==
    [][ (lastOp'.op = "call_extra" /\ Enters) =>
          /\ Len(stack') = Len(stack) + 1
          /\ NormalExtras(lastOp'.impls)
          /\ \E k \in 0..Len(_nonwrappers) :
                /\ Top'.methods =
                      WithExtras(_nonwrappers, k, lastOp'.impls) \o _wrappers
                /\ lastOp'.impls # <<>> =>
                      \A i \in DOMAIN _nonwrappers :
                          /\ (_nonwrappers[i].trylast \/ ~_nonwrappers[i].tryfirst)
                                => i <= k
                          /\ _nonwrappers[i].tryfirst => i > k ]_vars

\* Every callable of the list is one HookImpl accepts.
Accepted(methods) == \A i \in DOMAIN methods : ~varnames_asserts(methods[i])

\* C17, amended: on a non-historic caller, with callables HookImpl accepts and
\* a mapping as kwargs, call_extra makes one dispatch, over the non-wrappers
\* with the extras, one normal non-wrapper for each callable in the order given,
\* right behind the last entry that is not tryfirst, followed by the wrappers,
\* which it leaves as they are; in every other case it fails without a
\* dispatch.
C17_ExtrasBehindLastNonTryfirst ==
    [][ /\ (lastOp'.op = "call_extra" /\ ~Ends) =>
           \A methods \in MethodListsToFirstSelf(MaxImpls),
              kwargs \in {NoKwargs, Dict(ParamNames)} :
              call_extra(methods, kwargs) =>
                 IF Accepted(methods) /\ ~kwargs.none /\ ~_call_history.exists
                 THEN LET K == {i \in DOMAIN _nonwrappers :
                                   ~_nonwrappers[i].tryfirst}
                          k == IF K = {} THEN 0
                               ELSE CHOOSE i \in K : \A j \in K : j <= i
                      IN  /\ lastOp'.phase = "call" /\ lastOp'.err = "None"
                          /\ stack' = Append(stack, Top')
                          /\ Top'.op = "call_extra"
                          /\ Len(lastOp'.impls) = Len(methods)
                          /\ NormalExtras(lastOp'.impls)
                          /\ Top'.methods =
                                WithExtras(_nonwrappers, k, lastOp'.impls)
                                \o _wrappers
                          /\ Top'.kwargs = kwargs
                          /\ _wrappers' = _wrappers
                 ELSE /\ lastOp'.phase = "return"
                      /\ lastOp'.err = IF ~Accepted(methods) \/ ~kwargs.none
                                       THEN "AssertionError" ELSE "TypeError"
                      /\ lastOp'.disp = <<>>
                      /\ UNCHANGED stack
        /\ (lastOp'.op = "call_extra" /\ Ends) =>
              /\ Top.op = "call_extra"
              /\ Len(lastOp'.disp) = 1
              /\ lastOp'.disp[1].methods = Top.methods
              /\ lastOp'.disp[1].kwargs = Top.kwargs ]_vars

\* C17, witness: call_extra with two extra methods has returned from a
\* dispatch over the two extras followed by a tryfirst non-wrapper.
C17_Witness ==
    /\ lastOp.op = "call_extra" /\ lastOp.phase = "return"
    /\ Len(lastOp.impls) = 2
    /\ Len(lastOp.disp) = 1
    /\ Len(lastOp.disp[1].methods) = 3
    /\ SubSeq(lastOp.disp[1].methods, 1, 2) = lastOp.impls
    /\ lastOp.disp[1].methods[3].tryfirst
    /\ ~lastOp.disp[1].methods[3].hookwrapper

\* C18, as claimed: call_historic appends the entry (kwargs, proc) before the
\* dispatch starts, a dispatch that raises leaves it on record, and every
\* implementation added afterwards gets the failed call: the add replays the
\* history, and a replay that has ended has dispatched every failed call.
C18_FailedCallReplayedToEveryAdd ==
    [][ /\ (lastOp'.op = "call_historic" /\ _call_history.exists /\ Enters) =>
              /\ Len(stack') = Len(stack) + 1
              /\ _call_history'.list =
                    Append(_call_history.list,
                           [kwargs |-> lastOp'.kwargs, proc |-> lastOp'.proc])
        /\ (lastOp'.op = "call_historic" /\ Ends /\ lastOp'.err = "HookError") =>
              UNCHANGED _call_history
        /\ (lastOp'.op = "_add_hookimpl" /\ failed # {}) =>
              lastOp'.phase = "call"
        /\ (lastOp'.op = "_maybe_apply_history" /\ Ends) =>
              \A i \in failed : i <= Top.idx ]_vars

\* C18, amended: call_historic appends the entry (kwargs or {}, proc) to the end
\* of the history before the dispatch starts; when the dispatch raises, the
\* entry stays where it is, and no later step removes or changes it.
\* _add_hookimpl makes no dispatch; a replay (_maybe_apply_history) that gets
\* to the entry of a failed call dispatches it like any other, to the
\* implementation alone and with the recorded kwargs, and calls the recorded
\* proc with its first result.  A replay gets to the entries one by one from
\* the first: it ends without an error only behind the last entry, so that it
\* has then dispatched every failed call, and it ends with an error at the
\* entry whose dispatch or callback raised, without the later ones.
C18_FailedCallStaysRecorded ==
    [][ /\ (lastOp'.op = "call_historic" /\ _call_history.exists /\ Enters) =>
              /\ Len(stack') = Len(stack) + 1
              /\ Top'.idx = Len(_call_history.list) + 1
              /\ Top'.phase = "dispatch"
              /\ _call_history'.list =
                    Append(_call_history.list,
                           [kwargs |-> IF lastOp'.kwargs.none THEN Dict({})
                                       ELSE lastOp'.kwargs,
                            proc |-> lastOp'.proc])
        /\ (lastOp'.op = "call_historic" /\ Ends /\ lastOp'.err = "HookError") =>
              /\ lastOp'.disp[1].raised
              /\ lastOp'.cbs = <<>>
              /\ UNCHANGED _call_history
              /\ Top.idx \in failed'
              /\ _call_history.list[Top.idx] =
                    [kwargs |-> IF lastOp'.kwargs.none THEN Dict({})
                                ELSE lastOp'.kwargs,
                     proc |-> lastOp'.proc]
        /\ \A i \in failed :
              /\ i \in failed'
              /\ i \in DOMAIN _call_history'.list
              /\ _call_history'.list[i] = _call_history.list[i]
        /\ lastOp'.op = "_add_hookimpl" =>
              lastOp'.phase = "return" /\ lastOp'.disp = <<>> /\ UNCHANGED stack
        /\ (lastOp'.op = "_maybe_apply_history" /\ lastOp'.phase = "call") =>
              /\ stack' # <<>>
              /\ Top'.op = "_maybe_apply_history" /\ Top'.phase = "dispatch"
              /\ Top'.idx = IF Enters THEN 1 ELSE Top.idx + 1
              /\ Top'.idx \in DOMAIN _call_history.list
              /\ Top'.methods = lastOp'.impls /\ Len(Top'.methods) = 1
              /\ Top'.kwargs = _call_history.list[Top'.idx].kwargs
              /\ Top'.proc = _call_history.list[Top'.idx].proc
        /\ (/\ stack # <<>> /\ Top.op = "_maybe_apply_history"
            /\ Top.phase = "dispatch" /\ Top.idx \in failed
            /\ lastOp'.op = "_maybe_apply_history" /\ lastOp'.disp # <<>>
            /\ Len(stack') <= Len(stack)) =>
              /\ Len(lastOp'.disp) = 1
              /\ lastOp'.disp[1].methods = Top.impls
              /\ lastOp'.disp[1].kwargs = _call_history.list[Top.idx].kwargs
              /\ lastOp'.phase = "callback" <=>
                    /\ ~lastOp'.disp[1].raised
                    /\ lastOp'.disp[1].res # <<>>
                    /\ _call_history.list[Top.idx].proc # NoProc
              /\ lastOp'.phase = "callback" =>
                    lastOp'.cbs =
                       <<[proc |-> _call_history.list[Top.idx].proc,
                          value |-> lastOp'.disp[1].res[1]]>>
        /\ (lastOp'.op = "_maybe_apply_history" /\ Ends) =>
              IF lastOp'.err = "None"
              THEN /\ Top.idx = Len(_call_history.list)
                   /\ \A i \in failed : i <= Top.idx
              ELSE \/ lastOp'.err = "HookError" /\ lastOp'.disp[1].raised
                   \/ lastOp'.err = "ProcError" /\ lastOp'.cbs # <<>> ]_vars

\* C18, witness: the second call recorded failed in its dispatch; a replay
\* has got past the first entry, has dispatched the failed call to the
\* implementation and is now in the callback recorded with it.
C18_Witness ==
    /\ stack # <<>>
    /\ Top.op = "_maybe_apply_history" /\ Top.phase = "callback"
    /\ Top.idx = 2 /\ 2 \in failed
    /\ lastOp.op = "_maybe_apply_history" /\ lastOp.phase = "callback"
    /\ lastOp.disp[1].kwargs = _call_history.list[2].kwargs
    /\ _call_history.list[2].proc = "cb"

\* C19: __call__ and call_historic hand the dispatcher the list
\* _nonwrappers ++ _wrappers as it is when they are called; an _add_hookimpl or
\* _remove_plugin made while the dispatch is in progress changes the chains,
\* which stay changed, and not the list of the dispatch.
C19_DispatchListIsSnapshot ==
    [][ /\ (lastOp'.op \in {"__call__", "call_historic"} /\ lastOp'.phase = "call") =>
              /\ Len(stack') = Len(stack) + 1
              /\ Top'.methods = _nonwrappers \o _wrappers
        /\ (lastOp'.op \in {"_add_hookimpl", "_remove_plugin"} /\ stack # <<>>) =>
              /\ UNCHANGED stack
              /\ lastOp'.err = "None" =>
                    _nonwrappers' \o _wrappers' # _nonwrappers \o _wrappers
        /\ (lastOp'.op \in {"__call__", "call_historic"} /\ Ends) =>
              /\ Len(lastOp'.disp) = 1
              /\ lastOp'.disp[1].methods = Top.pre.nw \o Top.pre.w
              /\ UNCHANGED <<_wrappers, _nonwrappers>> ]_vars

\* C19, witness: a call has returned from its dispatch over an implementation
\* that was removed, and without the one that was added, while it was in
\* progress.
C19_Witness ==
    /\ lastOp.op \in {"__call__", "call_historic"} /\ lastOp.phase = "return"
    /\ Len(lastOp.disp) = 1
    /\ \E x \in Range(lastOp.disp[1].methods) :
          x \notin Range(_nonwrappers \o _wrappers)
    /\ \E y \in Range(_nonwrappers \o _wrappers) :
          y \notin Range(lastOp.disp[1].methods)

\* C20: the kwargs a call_historic dispatches to the registered implementations
\* are the kwargs of the history entry it recorded, which a later replay
\* dispatches, also when the call is made without kwargs.
C20_DispatchedKwargsAreRecorded ==
    [][ (lastOp'.op = "call_historic" /\ Ends) =>
            /\ Len(lastOp'.disp) = 1
            /\ Top.idx \in DOMAIN _call_history.list
            /\ lastOp'.disp[1].kwargs = _call_history.list[Top.idx].kwargs ]_vars

====
